---- MODULE Spec2Model ----
(***************************************************************************)
(* Model of the feedback-analyser frontend: the role-based route guard     *)
(* (ProtectedRoute / App), the role-filtered navigation menu (Layout) and  *)
(* the client-side integrations store (Integrations page, localStorage).   *)
(***************************************************************************)
EXTENDS Integers, Sequences, FiniteSets, TLC

VARIABLES
    \* ---- session and routing (App, ProtectedRoute, Layout) ----
    user,          \* state.auth.user: a principal, or NoUser
    loading,       \* useAuth().loading
    requested,     \* the path of the last navigation request
    location,      \* the router location after the redirects were followed
    redirects,     \* the <Navigate> targets followed for the last render
    view,          \* the page component that ended up rendered
    menu,          \* the menuItems rendered by Layout (<<>> when no Layout)
    \* ---- the route guard applied to arbitrary inputs ----
    gUser, gAllowedRoles, gChildren, gElement,
    \* ---- the Integrations page and its localStorage entry ----
    storage,              \* localStorage["integrations_config"]
    mounted,              \* the Integrations component is mounted
    integrations,         \* useState: the list of Integration records
    configDialogOpen,     \* useState
    selectedIntegration,  \* useState: an Integration, or NoSelection
    configValues,         \* useState: the edited config
    testResult,           \* useState: the message, or NoResult
    timers,               \* pending setTimeout callbacks of handleTestConnection
    testTarget,           \* the integration the last test was requested for
    steps,                \* number of user actions taken on the page so far
    \* ---- loadIntegrations applied to arbitrary storage contents ----
    loadInput,     \* the getItem result the last call read
    loadResult,    \* the list the last call returned
    loadRaised,    \* the last call raised to its caller
    opLog,         \* the store operations called so far, in order
    storeLog,      \* the list before the first call and after each call
    storageLog,    \* the stored payload at the same moments
    fetchView,     \* the view that issues the backend reads
    viewLoading,   \* the loading flag that view renders from
    dashboard,     \* state.analytics.dashboard
    viewData,      \* what the view's last successful read stored
    pending,       \* reads of the view that are in flight
    calls,         \* reads the view has started
    lastOutcome,   \* how the last settled read ended
    rejections,    \* per rejected read: its detail, the snackbar enqueued
    \* ---- the session: Login.handleSubmit, logout, the stored token ----
    lsToken,       \* localStorage["token"]
    authToken,     \* state.auth.token
    loginPhase,    \* where handleSubmit stands: idle, login, me
    attemptToken,  \* the access_token of the attempt under way or just ended
    loginOutcome,  \* how the last attempt ended: none, ok, failed
    attempts,      \* login attempts started
    roundTrips,    \* requests sent to the backend
    loggedOut,      \* logout was dispatched and no login succeeded since
    \* ---- the page open in several tabs of one browser ----
    tabs,           \* per tab: the list of its Integrations component
    \* ---- AdminManagement: the overlapping reads of loadData ----
    inFlight,      \* the calls of loadData whose pair of requests is pending
    issued,        \* calls of loadData so far; a call is named by its number
    usersFrom,     \* the call whose response setUsers stored (0: none)
    pendingFrom,   \* the call whose response setPendingRequests stored
    adminLoading,  \* useState: loading
    settledLog,    \* the calls that settled, in order, and how
    \* ---- the feedback slice of the store ----
    feedback,      \* state.feedback: items and total
    lastAction,    \* the action dispatched last: its type and payload
    unsynced,      \* setFeedback was dispatched and no setTotal since
    dispatches     \* actions dispatched to the slice

navVars   == <<user, loading, requested, location, redirects, view, menu>>
guardVars == <<gUser, gAllowedRoles, gChildren, gElement>>
intVars   == <<storage, mounted, integrations, configDialogOpen,
               selectedIntegration, configValues, testResult, timers,
               testTarget, steps>>
loadVars  == <<loadInput, loadResult, loadRaised>>
opVars    == <<opLog, storeLog, storageLog>>
fetchVars == <<fetchView, viewLoading, dashboard, viewData, pending, calls,
               lastOutcome, rejections>>
sessVars  == <<lsToken, authToken, loginPhase, attemptToken, loginOutcome,
               attempts, roundTrips, loggedOut>>
tabVars   == <<tabs>>
adminVars == <<inFlight, issued, usersFrom, pendingFrom, adminLoading,
               settledLog>>
fbVars    == <<feedback, lastAction, unsynced, dispatches>>
vars      ==
    <<navVars, guardVars, intVars, loadVars, opVars, fetchVars, sessVars,
      tabVars, adminVars, fbVars>>

(***************************************************************************)
(* Principals                                                              *)
(***************************************************************************)
Roles == {"admin", "analyst", "viewer"}

NoRole == "null"

\* the absent principal (state.auth.user === null)
NoUser ==
    [role |-> NoRole, requested_role |-> NoRole, role_approved |-> FALSE,
     is_active |-> FALSE, is_super_admin |-> FALSE]

\* The principals the backend hands out.  An admin request that is not yet
\* approved leaves the account with the viewer role.
Principals ==
    { p \in [role : Roles, requested_role : Roles \cup {NoRole},
             role_approved : BOOLEAN, is_active : BOOLEAN,
             is_super_admin : BOOLEAN] :
        (p.requested_role = "admin" /\ ~p.role_approved) => p.role = "viewer" }

\* Profile.tsx: the "pending approval" notice
hasPendingAdminRequest(u) ==
    u.requested_role = "admin" /\ ~u.role_approved

\* useAuth().isAuthenticated
isAuthenticated(u) == u # NoUser

(***************************************************************************)
(* Route elements                                                          *)
(***************************************************************************)
NoView == "none"

Page(name)     == [kind |-> "page", to |-> "", page |-> name]
NavigateTo(p)  == [kind |-> "navigate", to |-> p, page |-> NoView]

\* variants of the guard used to show that the properties below depend on it
ProtectedRoute_NoRoleCheck(u, allowedRoles, children) ==
    IF u = NoUser THEN NavigateTo("/login") ELSE children

ProtectedRoute_DeniedToLogin(u, allowedRoles, children) ==
    IF u = NoUser \/ u.role \notin allowedRoles THEN NavigateTo("/login")
    ELSE children

ProtectedRoute_RequestedRole(u, allowedRoles, children) ==
    IF u = NoUser THEN NavigateTo("/login")
    ELSE IF u.requested_role = "admin" /\ ~u.role_approved
         THEN (IF "admin" \in allowedRoles THEN children ELSE NavigateTo("/"))
    ELSE IF u.role \notin allowedRoles THEN NavigateTo("/")
    ELSE children

ProtectedRoute_SuperAdmin(u, allowedRoles, children) ==
    IF u = NoUser THEN NavigateTo("/login")
    ELSE IF u.role \notin allowedRoles /\ ~u.is_super_admin THEN NavigateTo("/")
    ELSE children

\* ProtectedRoute({children, allowedRoles}) with the store's user
ProtectedRoute(u, allowedRoles, children) ==
    IF u = NoUser THEN NavigateTo("/login")
    ELSE IF u.role \notin allowedRoles THEN NavigateTo("/")
    ELSE children

UnauthRoutes_CatchAllHome(path) ==
    CASE path = "/login"  -> Page("Login")
      [] path = "/signup" -> Page("Signup")
      [] path = "/"       -> Page("Dashboard")
      [] OTHER            -> NavigateTo("/login")

\* the <Routes> of the unauthenticated branch of App
UnauthRoutes(path) ==
    CASE path = "/login"  -> Page("Login")
      [] path = "/signup" -> Page("Signup")
      [] OTHER            -> NavigateTo("/login")

AuthRouteTable_IntegrationsOpen ==
    << [path |-> "/",             guarded |-> FALSE, allowedRoles |-> {},                   page |-> "Dashboard"],
       [path |-> "/feedback",     guarded |-> FALSE, allowedRoles |-> {},                   page |-> "FeedbackList"],
       [path |-> "/analytics",    guarded |-> FALSE, allowedRoles |-> {},                   page |-> "Analytics"],
       [path |-> "/integrations", guarded |-> FALSE, allowedRoles |-> {},                   page |-> "Integrations"],
       [path |-> "/reports",      guarded |-> FALSE, allowedRoles |-> {},                   page |-> "Reports"],
       [path |-> "/profile",      guarded |-> FALSE, allowedRoles |-> {},                   page |-> "Profile"],
       [path |-> "/admin",        guarded |-> TRUE,  allowedRoles |-> {"admin"},            page |-> "AdminManagement"] >>

AuthRouteTable_NoReports ==
    << [path |-> "/",             guarded |-> FALSE, allowedRoles |-> {},                   page |-> "Dashboard"],
       [path |-> "/feedback",     guarded |-> FALSE, allowedRoles |-> {},                   page |-> "FeedbackList"],
       [path |-> "/analytics",    guarded |-> FALSE, allowedRoles |-> {},                   page |-> "Analytics"],
       [path |-> "/integrations", guarded |-> TRUE,  allowedRoles |-> {"admin", "analyst"}, page |-> "Integrations"],
       [path |-> "/profile",      guarded |-> FALSE, allowedRoles |-> {},                   page |-> "Profile"],
       [path |-> "/admin",        guarded |-> TRUE,  allowedRoles |-> {"admin"},            page |-> "AdminManagement"] >>

\* the explicit <Route path=...> entries of the authenticated branch of App:
\* guarded = TRUE when the element is wrapped in ProtectedRoute
AuthRouteTable ==
    << [path |-> "/",             guarded |-> FALSE, allowedRoles |-> {},                   page |-> "Dashboard"],
       [path |-> "/feedback",     guarded |-> FALSE, allowedRoles |-> {},                   page |-> "FeedbackList"],
       [path |-> "/analytics",    guarded |-> FALSE, allowedRoles |-> {},                   page |-> "Analytics"],
       [path |-> "/integrations", guarded |-> TRUE,  allowedRoles |-> {"admin", "analyst"}, page |-> "Integrations"],
       [path |-> "/reports",      guarded |-> FALSE, allowedRoles |-> {},                   page |-> "Reports"],
       [path |-> "/profile",      guarded |-> FALSE, allowedRoles |-> {},                   page |-> "Profile"],
       [path |-> "/admin",        guarded |-> TRUE,  allowedRoles |-> {"admin"},            page |-> "AdminManagement"] >>

MatchingRoutes(path) ==
    { i \in DOMAIN AuthRouteTable : AuthRouteTable[i].path = path }

\* the <Routes> of the authenticated branch of App, "*" last
AuthRoutes(u, path) ==
    IF MatchingRoutes(path) = {} THEN NavigateTo("/")
    ELSE LET r == AuthRouteTable[CHOOSE i \in MatchingRoutes(path) :
                                   \A j \in MatchingRoutes(path) : i <= j]
         IN  IF r.guarded THEN ProtectedRoute(u, r.allowedRoles, Page(r.page))
             ELSE Page(r.page)

\* App(): what is rendered for a location
App(u, l, path) ==
    IF l THEN Page("Loading")
    ELSE IF ~isAuthenticated(u) THEN UnauthRoutes(path)
    ELSE AuthRoutes(u, path)

(***************************************************************************)
(* Layout: the navigation menu                                             *)
(***************************************************************************)
allMenuItems ==
    << [text |-> "Dashboard",    path |-> "/",             roles |-> {"admin", "analyst", "viewer"}],
       [text |-> "Feedback",     path |-> "/feedback",     roles |-> {"admin", "analyst", "viewer"}],
       [text |-> "Analytics",    path |-> "/analytics",    roles |-> {"admin", "analyst", "viewer"}],
       [text |-> "Integrations", path |-> "/integrations", roles |-> {"admin", "analyst"}],
       [text |-> "Reports",      path |-> "/reports",      roles |-> {"admin", "analyst", "viewer"}] >>

adminMenuItem ==
    [text |-> "Admin", path |-> "/admin", roles |-> {"admin"}]

\* user?.role || "viewer"
RoleOrViewer(u) == IF u = NoUser THEN "viewer" ELSE u.role

HasRole(r, item) == r \in item.roles

baseMenuItems(u) ==
    LET keep(item) == HasRole(RoleOrViewer(u), item)
    IN  SelectSeq(allMenuItems, keep)

menuItems_AdminEntryForAnalyst(u) ==
    IF u # NoUser /\ u.role \in {"admin", "analyst"}
    THEN Append(baseMenuItems(u), adminMenuItem)
    ELSE baseMenuItems(u)

menuItems(u) ==
    IF u # NoUser /\ u.role = "admin"
    THEN Append(baseMenuItems(u), adminMenuItem)
    ELSE baseMenuItems(u)

(***************************************************************************)
(* The Integrations page: records, localStorage payloads, load and persist *)
(***************************************************************************)
\* An Integration is a record over a subset of the fields id, name,
\* description, icon, enabled, status, config; an optional field that is
\* undefined is left out of the record.  A config is a set of <<key, value>>
\* pairs with distinct keys.
Spread(a, b) ==
    [f \in DOMAIN a \cup DOMAIN b |-> IF f \in DOMAIN b THEN b[f] ELSE a[f]]

Without(r, field) == [f \in DOMAIN r \ {field} |-> r[f]]

Keys(cfg) == { kv[1] : kv \in cfg }

Put(cfg, k, v) == { kv \in cfg : kv[1] # k } \cup { <<k, v>> }

defaultIntegrations ==
    << [id |-> "slack", name |-> "Slack",
        description |-> "Get feedback notifications in Slack channels",
        icon |-> "Chat", enabled |-> FALSE, status |-> "disconnected"],
       [id |-> "teams", name |-> "Microsoft Teams",
        description |-> "Send feedback alerts to Teams channels",
        icon |-> "Chat", enabled |-> FALSE, status |-> "disconnected"],
       [id |-> "email", name |-> "Email Notifications",
        description |-> "Receive email alerts for critical feedback",
        icon |-> "Email", enabled |-> TRUE, status |-> "connected",
        config |-> { <<"email", "team@example.com">> }],
       [id |-> "webhook", name |-> "Custom Webhook",
        description |-> "Send feedback to your custom endpoint",
        icon |-> "Webhook", enabled |-> FALSE, status |-> "disconnected"],
       [id |-> "zapier", name |-> "Zapier",
        description |-> "Connect to 5000+ apps via Zapier",
        icon |-> "IntegrationInstructions", enabled |-> FALSE,
        status |-> "disconnected"] >>

\* ---- localStorage contents and JSON ----
\* getItem gives null, or a text; a text is empty, unparseable, or the
\* serialization of a JSON value
NoItem      == [kind |-> "null"]
EmptyText   == [kind |-> "text", text |-> "empty"]
GarbageText == [kind |-> "text", text |-> "garbage"]
JsonText(v) == [kind |-> "json", value |-> v]

JNull      == [t |-> "null"]
JNumber    == [t |-> "number"]
JObject(r) == [t |-> "object", fields |-> r]
JArray(q)  == [t |-> "array", items |-> q]

\* JSON.stringify of a list of records: booleans, strings and string-valued
\* configs are written as they are
JSONstringify(list) ==
    JsonText(JArray([i \in DOMAIN list |-> JObject(list[i])]))

\* JSON.parse: throws on a text that is not JSON
JSONparse(text) ==
    IF text.kind = "json" THEN [threw |-> FALSE, value |-> text.value]
    ELSE [threw |-> TRUE, value |-> JNull]

\* (i) => i.id === id, on one element of the parsed array
IdMatches(entry, id) ==
    /\ entry.t = "object"
    /\ "id" \in DOMAIN entry.fields
    /\ entry.fields.id = id

\* parsedIntegrations.find((i) => i.id === id): index of the first match,
\* 0 when there is none
FindIndex(items, id) ==
    LET hits == { i \in DOMAIN items : IdMatches(items[i], id) }
    IN  IF hits = {} THEN 0
        ELSE CHOOSE i \in hits : \A j \in hits : i <= j

\* the callback reads i.id of every element up to the first match: a null
\* element there raises a TypeError
FindThrows(items, id) ==
    LET k == FindIndex(items, id)
        visited == IF k = 0 THEN DOMAIN items ELSE 1..(k - 1)
    IN  \E j \in visited : items[j].t = "null"

\* { ...def, ...saved, icon: def.icon }
MergeSaved(def, saved) ==
    Spread(Spread(def, saved), [icon |-> def.icon])

loadIntegrations_DefaultsOnlyWhenSaved(st) ==
    IF st.kind = "null" \/ st = EmptyText
    THEN SubSeq(defaultIntegrations, 1, Len(defaultIntegrations) - 1)
    ELSE defaultIntegrations

loadIntegrations_KeepUnknown(st) ==
    IF st.kind = "json" /\ st.value.t = "array"
         /\ \A j \in DOMAIN st.value.items : st.value.items[j].t = "object"
    THEN [i \in DOMAIN st.value.items |-> st.value.items[i].fields]
    ELSE defaultIntegrations

\* the try block of loadIntegrations: it returns the merged list, falls
\* through (nothing saved), or throws
tryLoad(st) ==
    LET through == [threw |-> FALSE, returned |-> FALSE, value |-> << >>]
        thrown  == [threw |-> TRUE, returned |-> FALSE, value |-> << >>]
    IN  IF st.kind = "null" \/ st = EmptyText THEN through
        ELSE LET parsed == JSONparse(st)
             IN  IF parsed.threw THEN thrown
                 ELSE IF parsed.value.t # "array" THEN thrown
                 ELSE IF \E d \in DOMAIN defaultIntegrations :
                             FindThrows(parsed.value.items,
                                        defaultIntegrations[d].id)
                      THEN thrown
                 ELSE [threw |-> FALSE, returned |-> TRUE,
                       value |->
                         [d \in DOMAIN defaultIntegrations |->
                            LET def == defaultIntegrations[d]
                                k   == FindIndex(parsed.value.items, def.id)
                            IN  IF k # 0
                                THEN MergeSaved(def, parsed.value.items[k].fields)
                                ELSE def]]

loadOutcome_NoCatch(st) ==
    LET t == tryLoad(st)
    IN  IF t.threw THEN [raised |-> TRUE, value |-> << >>]
        ELSE [raised |-> FALSE,
              value |-> IF t.returned THEN t.value ELSE defaultIntegrations]

\* try { ... } catch (error) { console.error(...) } return defaultIntegrations
loadOutcome(st) ==
    LET t == tryLoad(st)
    IN  [raised |-> FALSE,
         value |-> IF t.returned THEN t.value ELSE defaultIntegrations]

\* loadIntegrations(): the list the component starts with
loadIntegrations(st) == loadOutcome(st).value

persist_KeepsIcon(list) == JSONstringify(list)

persist_DropsName(list) ==
    JSONstringify([i \in DOMAIN list |->
                     Without(Without(list[i], "icon"), "name")])

persist_DropsConfig(list) ==
    JSONstringify([i \in DOMAIN list |->
                     Without(Without(list[i], "icon"), "config")])

\* the useEffect on [integrations]: setItem of the list without the icons
persist(list) ==
    JSONstringify([i \in DOMAIN list |-> Without(list[i], "icon")])

(***************************************************************************)
(* Rendering a location: follow <Navigate replace> until a page renders    *)
(***************************************************************************)
MaxRedirects == 3

RECURSIVE Render(_, _, _, _, _)
Render(u, l, path, trail, fuel) ==
    LET e == App(u, l, path)
    IN  IF e.kind = "navigate" /\ fuel > 0
        THEN Render(u, l, e.to, Append(trail, e.to), fuel - 1)
        ELSE [location  |-> path,
              redirects |-> trail,
              view      |-> e.page,
              menu      |-> IF ~l /\ isAuthenticated(u) THEN menuItems(u)
                            ELSE << >>]

Paths ==
    {"/", "/feedback", "/analytics", "/integrations", "/reports", "/profile",
     "/admin", "/login", "/signup", "/nowhere"}

Show(u, l, path) ==
    LET r == Render(u, l, path, << >>, MaxRedirects)
    IN  /\ user' = u
        /\ loading' = l
        /\ requested' = path
        /\ location' = r.location
        /\ redirects' = r.redirects
        /\ view' = r.view
        /\ menu' = r.menu

GuardIdle ==
    /\ gUser = NoUser
    /\ gAllowedRoles = {}
    /\ gChildren = "Integrations"
    /\ gElement = NavigateTo("/login")

NavInit ==
    /\ user = NoUser
    /\ loading = TRUE
    /\ requested \in Paths
    /\ location = requested
    /\ redirects = << >>
    /\ view = "Loading"
    /\ menu = << >>

\* useAuth finishes its start-up check, with or without a restored session
AuthResolved ==
    /\ loading
    /\ \E u \in Principals \cup {NoUser} : Show(u, FALSE, location)
    /\ UNCHANGED <<fbVars, adminVars, tabVars,
                   sessVars, fetchVars, guardVars, intVars, loadVars, opVars>>

\* a typed URL or a click on a link
Navigate ==
    /\ \E p \in Paths : Show(user, loading, p)
    /\ UNCHANGED <<fbVars, adminVars, tabVars,
                   sessVars, fetchVars, guardVars, intVars, loadVars, opVars>>

\* Login.handleSubmit, both requests succeeding: setCredentials, navigate("/")
LoginSuccess ==
    /\ view = "Login"
    /\ \E u \in Principals : Show(u, loading, "/")
    /\ UNCHANGED <<fbVars, adminVars, tabVars,
                   sessVars, fetchVars, guardVars, intVars, loadVars, opVars>>

\* Signup.handleSubmit succeeding: navigate("/login")
SignupSuccess ==
    /\ view = "Signup"
    /\ Show(user, loading, "/login")
    /\ UNCHANGED <<fbVars, adminVars, tabVars,
                   sessVars, fetchVars, guardVars, intVars, loadVars, opVars>>

\* Layout.handleLogout: dispatch(logout())
handleLogout ==
    /\ menu # << >>
    /\ Show(NoUser, loading, location)
    /\ UNCHANGED <<fbVars, adminVars, tabVars,
                   sessVars, fetchVars, guardVars, intVars, loadVars, opVars>>

NavNext ==
    \/ AuthResolved
    \/ Navigate
    \/ LoginSuccess
    \/ SignupSuccess
    \/ handleLogout

NavIdle ==
    /\ user = NoUser
    /\ loading = TRUE
    /\ requested = "/"
    /\ location = "/"
    /\ redirects = << >>
    /\ view = "Loading"
    /\ menu = << >>

(***************************************************************************)
(* The Integrations component                                              *)
(***************************************************************************)
NoSelection == [id |-> "null"]

NoResult == "null"

\* no test has been requested
NoTarget == "none"

TestSuccess == "Connection successful! Integration is working properly."

\* const canModify = user?.role === "admin" || user?.role === "analyst"
canModify(u) == u # NoUser /\ u.role \in {"admin", "analyst"}

\* the text fields the dialog shows for an integration
ConfigFields(id) ==
    CASE id = "slack"   -> {"webhookUrl", "channel"}
      [] id = "teams"   -> {"webhookUrl"}
      [] id = "email"   -> {"email", "frequency"}
      [] id = "webhook" -> {"url", "secret"}
      [] id = "zapier"  -> {"zapierUrl"}
      [] OTHER          -> {}

\* what the user types into a field
ConfigInputs == {"https://x", ""}

toggleOne_Disables(prev, integrationId) ==
    [i \in DOMAIN prev |->
        IF prev[i].id = integrationId
        THEN [prev[i] EXCEPT !.enabled = FALSE]
        ELSE prev[i]]

toggleOne_Disconnects(prev, integrationId) ==
    [i \in DOMAIN prev |->
        IF prev[i].id = integrationId
        THEN [prev[i] EXCEPT !.enabled = ~prev[i].enabled,
                             !.status = IF prev[i].enabled
                                        THEN "disconnected"
                                        ELSE prev[i].status]
        ELSE prev[i]]

\* the updater of handleToggle
toggleOne(prev, integrationId) ==
    [i \in DOMAIN prev |->
        IF prev[i].id = integrationId
        THEN [prev[i] EXCEPT !.enabled = ~prev[i].enabled]
        ELSE prev[i]]

saveOne_MergeConfig(prev, id, values) ==
    [i \in DOMAIN prev |->
        IF prev[i].id = id
        THEN LET old == IF "config" \in DOMAIN prev[i]
                        THEN prev[i].config ELSE {}
                 kept == { kv \in old : kv[1] \notin Keys(values) }
             IN  Spread(prev[i], [config |-> kept \cup values,
                                  status |-> "connected", enabled |-> TRUE])
        ELSE prev[i]]

\* the updater of handleSaveConfig
saveOne(prev, id, values) ==
    [i \in DOMAIN prev |->
        IF prev[i].id = id
        THEN Spread(prev[i], [config |-> values, status |-> "connected",
                              enabled |-> TRUE])
        ELSE prev[i]]

DialogIdle ==
    /\ configDialogOpen = FALSE
    /\ selectedIntegration = NoSelection
    /\ configValues = {}
    /\ testResult = NoResult

IntIdle ==
    /\ storage = NoItem
    /\ mounted = FALSE
    /\ integrations = << >>
    /\ DialogIdle
    /\ timers = 0
    /\ testTarget = NoTarget
    /\ steps = 0

\* loadIntegrations has not been called yet
NoLoad == [kind |-> "none"]

LoadIdle ==
    /\ loadInput = NoLoad
    /\ loadResult = << >>
    /\ loadRaised = FALSE

\* no token is stored
NoToken == 0

\* no action has been dispatched to the feedback slice
NoAction == [type |-> "@@INIT", arg |-> << >>]

\* initialState of the feedback slice
initialState == [items |-> << >>, total |-> 0]

FeedbackIdle ==
    /\ feedback = initialState
    /\ lastAction = NoAction
    /\ unsynced = FALSE
    /\ dispatches = 0

\* the admin view is not rendered
AdminIdle ==
    /\ inFlight = {}
    /\ issued = 0
    /\ usersFrom = 0
    /\ pendingFrom = 0
    /\ adminLoading = FALSE
    /\ settledLog = << >>

\* the page is open in no tab
TabsIdle == tabs = << >>

\* nobody has logged in or out
SessIdle ==
    /\ lsToken = NoToken
    /\ authToken = NoToken
    /\ loginPhase = "idle"
    /\ attemptToken = NoToken
    /\ loginOutcome = "none"
    /\ attempts = 0
    /\ roundTrips = 0
    /\ loggedOut = FALSE

\* no view issues reads
NoFetchView == "none"

FetchIdle ==
    /\ fetchView = NoFetchView
    /\ viewLoading = FALSE
    /\ dashboard = "null"
    /\ viewData = "empty"
    /\ pending = 0
    /\ calls = 0
    /\ lastOutcome = "none"
    /\ rejections = << >>

\* no store operation has been recorded
OpIdle ==
    /\ opLog = << >>
    /\ storeLog = << >>
    /\ storageLog = << >>

\* bounds of the model
MaxSaved == 3
MaxPageSaved == 1
MaxSteps == 4
MaxTimers == 1
MaxOps == 2

\* elements a stored array may hold: full and partial records, a record
\* carrying presentation fields, a record of an id the catalog does not
\* know, a second record of the same id, and a null
SavedEntries ==
    { JObject([id |-> "slack", enabled |-> TRUE, status |-> "connected",
               config |-> { <<"webhookUrl", "https://x">> }]),
      JObject([id |-> "slack", name |-> "Slack", enabled |-> FALSE,
               status |-> "disconnected"]),
      JObject([id |-> "email", enabled |-> FALSE]),
      JObject([id |-> "teams", name |-> "Renamed", icon |-> "Stored",
               enabled |-> TRUE, status |-> "error"]),
      JObject([id |-> "legacy", name |-> "Legacy", enabled |-> TRUE,
               status |-> "connected"]),
      JNull }

SeqsUpTo(S, n) == UNION { [1..k -> S] : k \in 0..n }

\* an array may also hold elements that are not records
LoadEntries == SavedEntries \cup {JNumber}

InitialStorages ==
    {NoItem, EmptyText, GarbageText, JsonText(JNull), JsonText(JNumber),
     JsonText(JObject([id |-> "slack"]))}
      \cup { JsonText(JArray(q)) : q \in SeqsUpTo(LoadEntries, MaxSaved) }

\* the elements of the payloads the page is started on
PageEntries ==
    { e \in SavedEntries :
        e.t = "object" =>
          /\ e.fields.id \in {"slack", "teams", "legacy"}
          /\ "name" \in DOMAIN e.fields \/ "config" \in DOMAIN e.fields }

\* the payloads the page is started on
PageStorages ==
    {NoItem, GarbageText}
      \cup { JsonText(JArray(q)) : q \in SeqsUpTo(PageEntries, MaxPageSaved) }

\* the principals that reach the page through its route guard
IntegrationsUsers ==
    { p \in Principals :
        /\ ProtectedRoute(p, {"admin", "analyst"}, Page("Integrations"))
              = Page("Integrations")
        /\ p.requested_role = NoRole /\ p.role_approved /\ p.is_active
        /\ ~p.is_super_admin }

IntInit ==
    /\ user \in IntegrationsUsers
    /\ loading = FALSE
    /\ requested = "/integrations"
    /\ location = "/integrations"
    /\ redirects = << >>
    /\ view = "Integrations"
    /\ menu = menuItems(user)
    /\ storage \in PageStorages
    /\ mounted = FALSE
    /\ integrations = << >>
    /\ DialogIdle
    /\ timers = 0
    /\ testTarget = NoTarget
    /\ steps = 0
    /\ GuardIdle
    /\ LoadIdle
    /\ OpIdle
    /\ FetchIdle
    /\ SessIdle
    /\ TabsIdle
    /\ AdminIdle
    /\ FeedbackIdle

\* first render: useState(loadIntegrations()), then the effect persists
Mount ==
    /\ ~mounted
    /\ mounted' = TRUE
    /\ loadInput' = storage
    /\ loadResult' = loadIntegrations(storage)
    /\ loadRaised' = loadOutcome(storage).raised
    /\ integrations' = loadResult'
    /\ storage' = persist(integrations')
    /\ configDialogOpen' = FALSE
    /\ selectedIntegration' = NoSelection
    /\ configValues' = {}
    /\ testResult' = NoResult
    /\ UNCHANGED <<timers, testTarget, steps>>
    /\ UNCHANGED <<fbVars, adminVars,
                   tabVars, sessVars, fetchVars, navVars, guardVars, opVars>>

UserAction ==
    /\ mounted
    /\ steps < MaxSteps
    /\ steps' = steps + 1

\* leaving the page or reloading it: the component state is gone
Unmount ==
    /\ UserAction
    /\ mounted' = FALSE
    /\ integrations' = << >>
    /\ configDialogOpen' = FALSE
    /\ selectedIntegration' = NoSelection
    /\ configValues' = {}
    /\ testResult' = NoResult
    /\ timers' = 0
    /\ testTarget' = NoTarget
    /\ UNCHANGED storage
    /\ UNCHANGED <<fbVars, adminVars, tabVars,
                   sessVars, fetchVars, navVars, guardVars, loadVars, opVars>>

\* the Switch of a card
handleToggle ==
    /\ UserAction
    /\ canModify(user)
    /\ ~configDialogOpen
    /\ \E i \in DOMAIN integrations :
          integrations' = toggleOne(integrations, integrations[i].id)
    /\ storage' = persist(integrations')
    /\ UNCHANGED <<mounted, configDialogOpen, selectedIntegration,
                   configValues, testResult, timers, testTarget>>
    /\ UNCHANGED <<fbVars, adminVars, tabVars,
                   sessVars, fetchVars, navVars, guardVars, loadVars, opVars>>

\* the Configure button of a card
handleConfigure ==
    /\ UserAction
    /\ canModify(user)
    /\ ~configDialogOpen
    /\ \E i \in DOMAIN integrations :
          /\ selectedIntegration' = integrations[i]
          /\ configValues' = IF "config" \in DOMAIN integrations[i]
                             THEN integrations[i].config ELSE {}
    /\ configDialogOpen' = TRUE
    /\ testResult' = NoResult
    /\ UNCHANGED <<storage, mounted, integrations, timers, testTarget>>
    /\ UNCHANGED <<fbVars, adminVars, tabVars,
                   sessVars, fetchVars, navVars, guardVars, loadVars, opVars>>

\* typing into a field of the dialog
setConfigValues ==
    /\ UserAction
    /\ configDialogOpen
    /\ \E k \in ConfigFields(selectedIntegration.id), v \in ConfigInputs :
          configValues' = Put(configValues, k, v)
    /\ UNCHANGED <<storage, mounted, integrations, configDialogOpen,
                   selectedIntegration, testResult, timers, testTarget>>
    /\ UNCHANGED <<fbVars, adminVars, tabVars,
                   sessVars, fetchVars, navVars, guardVars, loadVars, opVars>>

\* Cancel, or the dialog's onClose
closeDialog ==
    /\ UserAction
    /\ configDialogOpen
    /\ configDialogOpen' = FALSE
    /\ UNCHANGED <<storage, mounted, integrations, selectedIntegration,
                   configValues, testResult, timers, testTarget>>
    /\ UNCHANGED <<fbVars, adminVars, tabVars,
                   sessVars, fetchVars, navVars, guardVars, loadVars, opVars>>

\* the Save button (disabled while configValues has no key)
handleSaveConfig ==
    /\ UserAction
    /\ configDialogOpen
    /\ Keys(configValues) # {}
    /\ IF selectedIntegration # NoSelection
       THEN /\ integrations' = saveOne(integrations, selectedIntegration.id,
                                       configValues)
            /\ storage' = persist(integrations')
            /\ configDialogOpen' = FALSE
            /\ selectedIntegration' = NoSelection
       ELSE UNCHANGED <<integrations, storage, configDialogOpen,
                        selectedIntegration>>
    /\ UNCHANGED <<mounted, configValues, testResult, timers, testTarget>>
    /\ UNCHANGED <<fbVars, adminVars, tabVars,
                   sessVars, fetchVars, navVars, guardVars, loadVars, opVars>>

\* the Test Connection button: setTimeout(..., 1000)
handleTestConnection ==
    /\ UserAction
    /\ configDialogOpen
    /\ Keys(configValues) # {}
    /\ timers < MaxTimers
    /\ timers' = timers + 1
    /\ testTarget' = selectedIntegration.id
    /\ UNCHANGED <<storage, mounted, integrations, configDialogOpen,
                   selectedIntegration, configValues, testResult>>
    /\ UNCHANGED <<fbVars, adminVars, tabVars,
                   sessVars, fetchVars, navVars, guardVars, loadVars, opVars>>

testTimeout_MarksConnected ==
    /\ mounted
    /\ timers > 0
    /\ timers' = timers - 1
    /\ UNCHANGED testTarget
    /\ testResult' = TestSuccess
    /\ integrations' =
          [i \in DOMAIN integrations |->
             IF integrations[i].id = selectedIntegration.id
             THEN [integrations[i] EXCEPT !.status = "connected"]
             ELSE integrations[i]]
    /\ storage' = persist(integrations')
    /\ UNCHANGED <<mounted, configDialogOpen, selectedIntegration,
                   configValues, steps>>
    /\ UNCHANGED <<fbVars, adminVars, tabVars,
                   sessVars, fetchVars, navVars, guardVars, loadVars, opVars>>

\* the timeout callback of handleTestConnection
testTimeout ==
    /\ mounted
    /\ timers > 0
    /\ timers' = timers - 1
    /\ UNCHANGED testTarget
    /\ testResult' = TestSuccess
    /\ UNCHANGED <<storage, mounted, integrations, configDialogOpen,
                   selectedIntegration, configValues, steps>>
    /\ UNCHANGED <<fbVars, adminVars, tabVars,
                   sessVars, fetchVars, navVars, guardVars, loadVars, opVars>>

IntNext ==
    \/ Mount
    \/ Unmount
    \/ handleToggle
    \/ handleConfigure
    \/ setConfigValues
    \/ closeDialog
    \/ handleSaveConfig
    \/ handleTestConnection
    \/ testTimeout

SpecInt == IntInit /\ [][IntNext]_vars

\* the page of one administrator on an empty storage, where a timeout
\* that is due on the mounted page fires
TestInit ==
    /\ IntInit
    /\ user.role = "admin"
    /\ storage = NoItem

SpecTest == TestInit /\ [][IntNext]_vars /\ WF_vars(testTimeout)

(***************************************************************************)
(* loadIntegrations on its own, against every stored payload               *)
(***************************************************************************)
LoadInit ==
    /\ NavIdle
    /\ GuardIdle
    /\ storage \in InitialStorages
    /\ mounted = FALSE
    /\ integrations = << >>
    /\ DialogIdle
    /\ timers = 0
    /\ testTarget = NoTarget
    /\ steps = 0
    /\ LoadIdle
    /\ opLog = << >>
    /\ storeLog = << >>
    /\ storageLog = << storage >>
    /\ FetchIdle
    /\ SessIdle
    /\ TabsIdle
    /\ AdminIdle
    /\ FeedbackIdle

Load_WritesBack ==
    /\ Len(opLog) < MaxOps
    /\ loadInput' = storage
    /\ loadResult' = loadIntegrations(storage)
    /\ loadRaised' = loadOutcome(storage).raised
    /\ storage' = persist(loadResult')
    /\ opLog' = Append(opLog, [op |-> "load", id |-> "", values |-> {},
                               raised |-> loadRaised'])
    /\ storeLog' = Append(storeLog, loadResult')
    /\ storageLog' = Append(storageLog, storage')
    /\ UNCHANGED <<mounted, integrations, configDialogOpen,
                   selectedIntegration, configValues, testResult,
                   timers, testTarget,
                   steps>>
    /\ UNCHANGED <<fbVars, adminVars,
                   tabVars, sessVars, fetchVars, navVars, guardVars>>

\* one call of loadIntegrations(): it reads the entry and writes nothing;
\* the call, its result and the entry after it are recorded
Load ==
    /\ Len(opLog) < MaxOps
    /\ loadInput' = storage
    /\ loadResult' = loadIntegrations(storage)
    /\ loadRaised' = loadOutcome(storage).raised
    /\ opLog' = Append(opLog, [op |-> "load", id |-> "", values |-> {},
                               raised |-> loadRaised'])
    /\ storeLog' = Append(storeLog, loadResult')
    /\ storageLog' = Append(storageLog, storage)
    /\ UNCHANGED <<fbVars, adminVars,
                   tabVars, sessVars, fetchVars, navVars, guardVars, intVars>>

LoadNext == Load

SpecLoad == LoadInit /\ [][LoadNext]_vars

(***************************************************************************)
(* The store operations called one after another on a mounted page: the    *)
(* handlers with any id and any config mapping, and a reload of the page   *)
(***************************************************************************)
\* an id no descriptor has
UnknownId == "nonexistent-id"

StoreIds == { defaultIntegrations[d].id : d \in DOMAIN defaultIntegrations }
                \cup {UnknownId}

\* config mappings handed to handleSaveConfig
StoreConfigs ==
    { {}, { <<"webhookUrl", "https://x">> }, { <<"channel", "#general">> } }

\* the payloads the page is started on
StoreStorages ==
    {NoItem} \cup { JsonText(JArray(<< e >>)) : e \in PageEntries }

\* the mounted page after its first render on one of the payloads
StoreInitOn(payloads) ==
    /\ user \in IntegrationsUsers
    /\ loading = FALSE
    /\ requested = "/integrations"
    /\ location = "/integrations"
    /\ redirects = << >>
    /\ view = "Integrations"
    /\ menu = menuItems(user)
    /\ GuardIdle
    /\ loadInput \in payloads
    /\ loadResult = loadIntegrations(loadInput)
    /\ loadRaised = loadOutcome(loadInput).raised
    /\ mounted = TRUE
    /\ integrations = loadResult
    /\ storage = persist(integrations)
    /\ DialogIdle
    /\ timers = 0
    /\ testTarget = NoTarget
    /\ steps = 0
    /\ opLog = << >>
    /\ storeLog = << integrations >>
    /\ storageLog = << storage >>
    /\ FetchIdle
    /\ SessIdle
    /\ TabsIdle
    /\ AdminIdle
    /\ FeedbackIdle

StoreInit == StoreInitOn(StoreStorages)

\* one more call: what was called, and the list and the payload after it
Record(op) ==
    /\ Len(opLog) < MaxOps
    /\ opLog' = Append(opLog, op)
    /\ storeLog' = Append(storeLog, integrations')
    /\ storageLog' = Append(storageLog, storage')

\* handleToggle(integrationId): the updater, then the persist effect; the
\* handler has no throw and returns nothing
callToggle ==
    /\ \E id \in StoreIds :
          /\ integrations' = toggleOne(integrations, id)
          /\ storage' = persist(integrations')
          /\ Record([op |-> "toggle", id |-> id, values |-> {},
                     raised |-> FALSE])
    /\ UNCHANGED <<mounted, configDialogOpen, selectedIntegration,
                   configValues, testResult, timers, testTarget, steps>>
    /\ UNCHANGED <<fbVars, adminVars,
                   tabVars, sessVars, fetchVars, navVars, guardVars, loadVars>>

\* handleSaveConfig() with selectedIntegration.id = id and configValues =
\* values: the updater, the persist effect, the dialog closed
callSaveConfig ==
    /\ \E id \in StoreIds, values \in StoreConfigs :
          /\ integrations' = saveOne(integrations, id, values)
          /\ storage' = persist(integrations')
          /\ Record([op |-> "configure", id |-> id, values |-> values,
                     raised |-> FALSE])
    /\ configDialogOpen' = FALSE
    /\ selectedIntegration' = NoSelection
    /\ UNCHANGED <<mounted, configValues, testResult, timers,
                   testTarget, steps>>
    /\ UNCHANGED <<fbVars, adminVars,
                   tabVars, sessVars, fetchVars, navVars, guardVars, loadVars>>

\* the page is left and opened again: the list is read back from storage
reload ==
    /\ loadInput' = storage
    /\ loadResult' = loadIntegrations(storage)
    /\ loadRaised' = loadOutcome(storage).raised
    /\ integrations' = loadResult'
    /\ storage' = persist(integrations')
    /\ Record([op |-> "load", id |-> "", values |-> {},
               raised |-> loadRaised'])
    /\ UNCHANGED <<mounted, configDialogOpen, selectedIntegration,
                   configValues, testResult, timers, testTarget, steps>>
    /\ UNCHANGED <<fbVars, adminVars,
                   tabVars, sessVars, fetchVars, navVars, guardVars>>

StoreNext ==
    \/ callToggle
    \/ callSaveConfig
    \/ reload

SpecStore == StoreInit /\ [][StoreNext]_vars

\* the same calls on a page started on payloads of other origin: no entry,
\* no JSON, a record with a field the page does not know, a record with
\* presentation fields
SchemaStorages ==
    { NoItem, GarbageText,
      JsonText(JArray(<< JObject([id |-> "slack", enabled |-> TRUE,
                                  status |-> "connected", version |-> "2"])
                      >>)),
      JsonText(JArray(<< JObject([id |-> "teams", name |-> "Renamed",
                                  icon |-> "Stored", enabled |-> TRUE,
                                  status |-> "error"]) >>)) }

SchemaInit == StoreInitOn(SchemaStorages)

SpecSchema == SchemaInit /\ [][StoreNext]_vars

(***************************************************************************)
(* The backend reads of the views: AdminManagement.loadData,               *)
(* Dashboard.loadDashboard, FeedbackList.loadFeedback and                  *)
(* Reports.loadReportData                                                  *)
(***************************************************************************)
MaxPending == 2
MaxCalls == 3

FetchViews == {"AdminManagement", "Dashboard", "FeedbackList", "Reports"}

\* what a successful read returns
Responses == {"r1", "r2"}

\* the first value of the loading flag: useState(true) in AdminManagement
\* and Reports, loading: false in the analytics and feedback slices
InitialLoading(v) == v \in {"AdminManagement", "Reports"}

\* the views that read again after the first read: the 30 s interval, the
\* Refresh button and the reads after an approval in AdminManagement, the
\* timeout after an upload in FeedbackList
ReadsAgain(v) == v \in {"AdminManagement", "FeedbackList"}

\* the view shows its progress indicator: Dashboard and Reports return the
\* CircularProgress box on `loading || !dashboard`, AdminManagement and
\* FeedbackList hand `loading` to the Refresh icon and to the DataGrid
LoadingIndicator ==
    IF fetchView \in {"Dashboard", "Reports"}
    THEN viewLoading \/ dashboard = "null"
    ELSE viewLoading

FetchInit ==
    /\ NavIdle
    /\ GuardIdle
    /\ IntIdle
    /\ LoadIdle
    /\ OpIdle
    /\ SessIdle
    /\ TabsIdle
    /\ AdminIdle
    /\ FeedbackIdle
    /\ fetchView \in FetchViews
    /\ viewLoading = InitialLoading(fetchView)
    /\ dashboard \in {"null"} \cup Responses
    /\ viewData = "empty"
    /\ pending = 0
    /\ calls = 0
    /\ lastOutcome = "none"
    /\ rejections = << >>

\* error.response?.data?.detail of a rejected request: absent for a
\* network error or a body without it
NoDetail == "undefined"
Details == {NoDetail, "Not enough permissions"}

NoSnackbar == "none"

\* the catch block of the view's load function: the snackbar it enqueues
catchRead(v, detail) ==
    CASE v = "AdminManagement" ->
           IF detail # NoDetail THEN detail ELSE "Failed to load data"
      [] v = "FeedbackList" -> "Failed to load feedback"
      [] OTHER -> NoSnackbar   \* Dashboard, Reports: console.error only

\* the first statement of a read: setLoading(true), then the request
startRead ==
    /\ calls < MaxCalls
    /\ pending < MaxPending
    /\ calls' = calls + 1
    /\ pending' = pending + 1
    /\ viewLoading' = TRUE
    /\ UNCHANGED <<fetchView, dashboard, viewData, lastOutcome, rejections>>
    /\ UNCHANGED <<fbVars, adminVars, tabVars,
                   sessVars, navVars, guardVars, intVars, loadVars, opVars>>

\* useEffect(() => { load...() }, [])
mountEffect ==
    /\ calls = 0
    /\ startRead

\* a later read of the same view
readAgain ==
    /\ calls > 0
    /\ ReadsAgain(fetchView)
    /\ startRead

\* the request resolves: the data is stored, finally setLoading(false)
readResolves ==
    /\ pending > 0
    /\ pending' = pending - 1
    /\ \E r \in Responses :
          IF fetchView = "Dashboard"
          THEN dashboard' = r /\ UNCHANGED viewData
          ELSE viewData' = r /\ UNCHANGED dashboard
    /\ lastOutcome' = "ok"
    /\ viewLoading' = FALSE
    /\ UNCHANGED <<fetchView, calls, rejections>>
    /\ UNCHANGED <<fbVars, adminVars, tabVars,
                   sessVars, navVars, guardVars, intVars, loadVars, opVars>>

\* the request rejects: the catch logs or enqueues a snackbar, finally
\* setLoading(false)
readRejects ==
    /\ pending > 0
    /\ pending' = pending - 1
    /\ \E detail \in Details :
          rejections' = Append(rejections,
                               [detail |-> detail,
                                snackbar |-> catchRead(fetchView, detail)])
    /\ lastOutcome' = "failed"
    /\ viewLoading' = FALSE
    /\ UNCHANGED <<fetchView, dashboard, viewData, calls>>
    /\ UNCHANGED <<fbVars, adminVars, tabVars,
                   sessVars, navVars, guardVars, intVars, loadVars, opVars>>

FetchNext ==
    \/ mountEffect
    \/ readAgain
    \/ readResolves
    \/ readRejects

SpecFetch == FetchInit /\ [][FetchNext]_vars

(***************************************************************************)
(* The session: Login.handleSubmit request by request, logout, and the     *)
(* navigation in between                                                   *)
(***************************************************************************)
MaxAttempts == 2

\* the principals the backend returns for the current user
SessionUsers ==
    { p \in Principals :
        /\ p.is_active /\ ~p.is_super_admin
        /\ \/ p.requested_role = NoRole /\ p.role_approved
           \/ hasPendingAdminRequest(p) }

\* the session a browser starts with: signed out, or signed in by an
\* earlier login whose token is in both stores
SessionInit ==
    /\ GuardIdle
    /\ IntIdle
    /\ LoadIdle
    /\ OpIdle
    /\ FetchIdle
    /\ TabsIdle
    /\ AdminIdle
    /\ FeedbackIdle
    /\ user \in SessionUsers \cup {NoUser}
    /\ loading = FALSE
    /\ requested \in {"/", "/login"}
    /\ LET r == Render(user, FALSE, requested, << >>, MaxRedirects)
       IN  /\ location = r.location
           /\ redirects = r.redirects
           /\ view = r.view
           /\ menu = r.menu
    /\ lsToken = IF user = NoUser THEN NoToken ELSE MaxAttempts + 1
    /\ authToken = lsToken
    /\ loginPhase = "idle"
    /\ attemptToken = NoToken
    /\ loginOutcome = "none"
    /\ attempts = 0
    /\ roundTrips = 0
    /\ loggedOut = FALSE

SessionFrame ==
    UNCHANGED <<fbVars,
                guardVars, intVars, loadVars, opVars, fetchVars, tabVars,
                adminVars>>

\* the form is submitted: setError(""), setLoading(true), authAPI.login
submitLogin ==
    /\ view = "Login"
    /\ loginPhase = "idle"
    /\ attempts < MaxAttempts
    /\ attempts' = attempts + 1
    /\ loginPhase' = "login"
    /\ roundTrips' = roundTrips + 1
    /\ attemptToken' = NoToken
    /\ UNCHANGED <<lsToken, authToken, loginOutcome, loggedOut>>
    /\ UNCHANGED navVars
    /\ SessionFrame

\* authAPI.login resolves: the token goes to localStorage first, then
\* authAPI.getCurrentUser is sent
loginResolves ==
    /\ loginPhase = "login"
    /\ attemptToken' = attempts
    /\ lsToken' = attemptToken'
    /\ loginPhase' = "me"
    /\ roundTrips' = roundTrips + 1
    /\ UNCHANGED <<authToken, loginOutcome, attempts, loggedOut>>
    /\ UNCHANGED navVars
    /\ SessionFrame

\* authAPI.login rejects: catch (setError, snackbar), finally
loginRejects ==
    /\ loginPhase = "login"
    /\ loginPhase' = "idle"
    /\ loginOutcome' = "failed"
    /\ UNCHANGED <<lsToken, authToken, attemptToken, attempts, roundTrips,
                   loggedOut>>
    /\ UNCHANGED navVars
    /\ SessionFrame

\* authAPI.getCurrentUser resolves: setCredentials({user, token}),
\* navigate("/")
meResolves ==
    /\ loginPhase = "me"
    /\ \E u \in SessionUsers : Show(u, loading, "/")
    /\ authToken' = attemptToken
    /\ loginPhase' = "idle"
    /\ loginOutcome' = "ok"
    /\ loggedOut' = FALSE
    /\ UNCHANGED <<lsToken, attemptToken, attempts, roundTrips>>
    /\ SessionFrame

\* authAPI.getCurrentUser rejects: catch (setError, snackbar), finally
meRejects ==
    /\ loginPhase = "me"
    /\ loginPhase' = "idle"
    /\ loginOutcome' = "failed"
    /\ UNCHANGED <<lsToken, authToken, attemptToken, attempts, roundTrips,
                   loggedOut>>
    /\ UNCHANGED navVars
    /\ SessionFrame

\* the logout reducer of the auth slice: the principal and the token are
\* dropped from the store and from localStorage
logout ==
    /\ authToken' = NoToken
    /\ lsToken' = NoToken

sessionLogout_KeepsLocation ==
    /\ menu # << >>
    /\ logout
    /\ user' = NoUser
    /\ UNCHANGED <<loading, requested, location, redirects, view, menu>>
    /\ loggedOut' = TRUE
    /\ UNCHANGED <<loginPhase, attemptToken, loginOutcome, attempts,
                   roundTrips>>
    /\ SessionFrame

\* Layout.handleLogout: dispatch(logout()), handleMenuClose()
sessionLogout ==
    /\ menu # << >>
    /\ logout
    /\ Show(NoUser, loading, location)
    /\ loggedOut' = TRUE
    /\ UNCHANGED <<loginPhase, attemptToken, loginOutcome, attempts,
                   roundTrips>>
    /\ SessionFrame

\* a typed URL or a click on a link
sessionNavigate ==
    /\ \E p \in Paths : Show(user, loading, p)
    /\ UNCHANGED sessVars
    /\ SessionFrame

SessionNext ==
    \/ submitLogin
    \/ loginResolves
    \/ loginRejects
    \/ meResolves
    \/ meRejects
    \/ sessionLogout
    \/ sessionNavigate

SpecSession == SessionInit /\ [][SessionNext]_vars

(***************************************************************************)
(* The page open in two tabs of one browser: each tab has its own          *)
(* component state, localStorage["integrations_config"] is one entry of    *)
(* the origin                                                              *)
(***************************************************************************)
Tabs == {"A", "B"}

\* both tabs have rendered the page on the same entry
TabsInit ==
    /\ NavIdle
    /\ GuardIdle
    /\ LoadIdle
    /\ FetchIdle
    /\ SessIdle
    /\ AdminIdle
    /\ FeedbackIdle
    /\ mounted = FALSE
    /\ integrations = << >>
    /\ DialogIdle
    /\ timers = 0
    /\ testTarget = NoTarget
    /\ steps = 0
    /\ \E st \in StoreStorages :
          /\ tabs = [t \in Tabs |-> loadIntegrations(st)]
          /\ storage = persist(loadIntegrations(st))
    /\ opLog = << >>
    /\ storeLog = << >>
    /\ storageLog = << storage >>

\* the list of one tab changes, its persist effect writes the entry
TabWrites(t, list, op) ==
    /\ tabs' = [tabs EXCEPT ![t] = list]
    /\ storage' = persist(list)
    /\ opLog' = Append(opLog, op)
    /\ storeLog' = Append(storeLog, list)
    /\ storageLog' = Append(storageLog, storage')

TabsFrame ==
    /\ Len(opLog) < MaxOps
    /\ UNCHANGED <<mounted, integrations, configDialogOpen,
                   selectedIntegration, configValues, testResult,
                   timers, testTarget,
                   steps>>
    /\ UNCHANGED <<fbVars, adminVars,
                   navVars, guardVars, loadVars, fetchVars, sessVars>>

\* handleToggle in one tab
tabToggle ==
    /\ TabsFrame
    /\ \E t \in Tabs, i \in DOMAIN defaultIntegrations :
          LET id == defaultIntegrations[i].id
          IN  TabWrites(t, toggleOne(tabs[t], id),
                        [op |-> "toggle", id |-> id, values |-> {},
                         raised |-> FALSE, tab |-> t])

\* handleSaveConfig in one tab
tabSaveConfig ==
    /\ TabsFrame
    /\ \E t \in Tabs, i \in DOMAIN defaultIntegrations,
          values \in StoreConfigs \ {{}} :
          LET id == defaultIntegrations[i].id
          IN  TabWrites(t, saveOne(tabs[t], id, values),
                        [op |-> "configure", id |-> id, values |-> values,
                         raised |-> FALSE, tab |-> t])

\* one tab is reloaded: its list is read from the entry and written back
tabReload ==
    /\ TabsFrame
    /\ \E t \in Tabs :
          TabWrites(t, loadIntegrations(storage),
                    [op |-> "load", id |-> "", values |-> {},
                     raised |-> FALSE, tab |-> t])

TabsNext ==
    \/ tabToggle
    \/ tabSaveConfig
    \/ tabReload

SpecTabs == TabsInit /\ [][TabsNext]_vars

(***************************************************************************)
(* AdminManagement: loadData called by the mount effect, the 30 s          *)
(* interval, the Refresh button and the handlers of an approval or a       *)
(* status change, with its pairs of requests settling in any order         *)
(***************************************************************************)
AdminInit ==
    /\ NavIdle
    /\ GuardIdle
    /\ IntIdle
    /\ LoadIdle
    /\ OpIdle
    /\ FetchIdle
    /\ SessIdle
    /\ TabsIdle
    /\ FeedbackIdle
    /\ inFlight = {}
    /\ issued = 0
    /\ usersFrom = 0
    /\ pendingFrom = 0
    /\ adminLoading = TRUE
    /\ settledLog = << >>

AdminFrame ==
    UNCHANGED <<fbVars,
                navVars, guardVars, intVars, loadVars, opVars, fetchVars,
                sessVars, tabVars>>

loadData_SkipsWhenBusy(by) ==
    /\ issued < MaxCalls
    /\ inFlight = {}
    /\ issued' = issued + 1
    /\ inFlight' = inFlight \cup {[call |-> issued', by |-> by]}
    /\ adminLoading' = TRUE
    /\ UNCHANGED <<usersFrom, pendingFrom, settledLog>>
    /\ AdminFrame

\* loadData up to its await: setLoading(true), Promise.all of the two gets
\* (by: the caller, kept with the call as a record of the run)
loadData(by) ==
    /\ issued < MaxCalls
    /\ issued' = issued + 1
    /\ inFlight' = inFlight \cup {[call |-> issued', by |-> by]}
    /\ adminLoading' = TRUE
    /\ UNCHANGED <<usersFrom, pendingFrom, settledLog>>
    /\ AdminFrame

\* useEffect(() => { loadData(); ... }, [])
adminMount ==
    /\ issued = 0
    /\ loadData("mount")

\* setInterval(() => { loadData() }, 30000)
timerTick ==
    /\ issued > 0
    /\ loadData("interval")

\* the Refresh button, disabled while loading
manualRefresh ==
    /\ issued > 0
    /\ ~adminLoading
    /\ loadData("button")

\* handleApproveRole / handleToggleUserStatus after their request
\* succeeded: loadData()
reloadAfterAction ==
    /\ issued > 0
    /\ loadData("handler")

\* both gets of a call resolved: setUsers, setPendingRequests, finally
\* setLoading(false)
pairResolves ==
    /\ \E r \in inFlight :
          /\ inFlight' = inFlight \ {r}
          /\ usersFrom' = r.call
          /\ pendingFrom' = r.call
          /\ settledLog' = Append(settledLog, [call |-> r.call, ok |-> TRUE])
    /\ adminLoading' = FALSE
    /\ UNCHANGED issued
    /\ AdminFrame

\* one get of a call rejected: the snackbar, finally setLoading(false)
pairRejects ==
    /\ \E r \in inFlight :
          /\ inFlight' = inFlight \ {r}
          /\ settledLog' = Append(settledLog, [call |-> r.call, ok |-> FALSE])
    /\ adminLoading' = FALSE
    /\ UNCHANGED <<issued, usersFrom, pendingFrom>>
    /\ AdminFrame

AdminNext ==
    \/ adminMount
    \/ timerTick
    \/ manualRefresh
    \/ reloadAfterAction
    \/ pairResolves
    \/ pairRejects

SpecAdmin == AdminInit /\ [][AdminNext]_vars

(***************************************************************************)
(* The feedback slice: its reducers, and the actions dispatched to it      *)
(***************************************************************************)
MaxDispatch == 4
MaxItems == 2

\* the feedback records of the payloads: an id and the rest of the record
Feedbacks == [id : {"f1", "f2"}, text : {"a", "b"}]

\* state.items = action.payload
setFeedback(state, payload) == [state EXCEPT !.items = payload]

addFeedback_KeepsTotal(state, payload) ==
    [state EXCEPT !.items = << payload >> \o @]

\* state.items.unshift(action.payload); state.total += 1
addFeedback(state, payload) ==
    [state EXCEPT !.items = << payload >> \o @, !.total = @ + 1]

\* state.items.findIndex((f) => f.id === id): 0 when there is none
findIndex(list, id) ==
    LET hits == { i \in DOMAIN list : list[i].id = id }
    IN  IF hits = {} THEN 0
        ELSE CHOOSE i \in hits : \A j \in hits : i <= j

\* if (index !== -1) state.items[index] = action.payload
updateFeedback(state, payload) ==
    LET index == findIndex(state.items, payload.id)
    IN  IF index # 0 THEN [state EXCEPT !.items[index] = payload]
        ELSE state

\* state.total = action.payload
setTotal(state, payload) == [state EXCEPT !.total = payload]

FeedbackInit ==
    /\ NavIdle
    /\ GuardIdle
    /\ IntIdle
    /\ LoadIdle
    /\ OpIdle
    /\ FetchIdle
    /\ SessIdle
    /\ TabsIdle
    /\ AdminIdle
    /\ feedback = initialState
    /\ lastAction = NoAction
    /\ unsynced = FALSE
    /\ dispatches = 0

FeedbackFrame ==
    UNCHANGED <<navVars, guardVars, intVars, loadVars, opVars, fetchVars,
                sessVars, tabVars, adminVars>>

dispatch(type, arg) ==
    /\ dispatches < MaxDispatch
    /\ dispatches' = dispatches + 1
    /\ lastAction' = [type |-> type, arg |-> arg]

dispatchSetFeedback ==
    /\ \E q \in SeqsUpTo(Feedbacks, MaxItems) :
          /\ dispatch("setFeedback", q)
          /\ feedback' = setFeedback(feedback, q)
    /\ unsynced' = TRUE
    /\ FeedbackFrame

dispatchAddFeedback ==
    /\ \E f \in Feedbacks :
          /\ dispatch("addFeedback", << f >>)
          /\ feedback' = addFeedback(feedback, f)
    /\ UNCHANGED unsynced
    /\ FeedbackFrame

dispatchUpdateFeedback ==
    /\ \E f \in Feedbacks :
          /\ dispatch("updateFeedback", << f >>)
          /\ feedback' = updateFeedback(feedback, f)
    /\ UNCHANGED unsynced
    /\ FeedbackFrame

\* setTotal with the number of items the slice holds
dispatchSetTotal ==
    /\ dispatch("setTotal", << >>)
    /\ feedback' = setTotal(feedback, Len(feedback.items))
    /\ unsynced' = FALSE
    /\ FeedbackFrame

FeedbackNext ==
    \/ dispatchSetFeedback
    \/ dispatchAddFeedback
    \/ dispatchUpdateFeedback
    \/ dispatchSetTotal

SpecFeedback == FeedbackInit /\ [][FeedbackNext]_vars

Init == NavInit /\ GuardIdle /\ IntIdle /\ LoadIdle /\ OpIdle /\ FetchIdle
        /\ SessIdle
        /\ TabsIdle
        /\ AdminIdle
        /\ FeedbackIdle

Next == NavNext

Spec == Init /\ [][Next]_vars

(***************************************************************************)
(* The route guard on its own: every principal (or none) against every     *)
(* allowedRoles list and each guarded page                                 *)
(***************************************************************************)
GuardedPages == { AuthRouteTable[i].page : i \in { j \in DOMAIN AuthRouteTable : AuthRouteTable[j].guarded } }

RenderGuard ==
    /\ \E u \in Principals \cup {NoUser}, roles \in SUBSET Roles, c \in GuardedPages :
          /\ gUser' = u
          /\ gAllowedRoles' = roles
          /\ gChildren' = c
          /\ gElement' = ProtectedRoute(u, roles, Page(c))
    /\ UNCHANGED <<fbVars, adminVars, tabVars,
                   sessVars, fetchVars, navVars, intVars, loadVars, opVars>>

GuardInit ==
    NavIdle /\ GuardIdle /\ IntIdle /\ LoadIdle /\ OpIdle /\ FetchIdle
        /\ SessIdle
        /\ TabsIdle
        /\ AdminIdle
        /\ FeedbackIdle

GuardNext == RenderGuard

SpecGuard == GuardInit /\ [][GuardNext]_vars

(***************************************************************************)
(* Properties of the route guard, the routes and the menu                  *)
(***************************************************************************)
GuardedRoutes == { i \in DOMAIN AuthRouteTable : AuthRouteTable[i].guarded }

AdminOnlyRoutes == { i \in GuardedRoutes : AuthRouteTable[i].allowedRoles = {"admin"} }

RouteAt(path) == { i \in DOMAIN AuthRouteTable : AuthRouteTable[i].path = path }

\* the route catalog of the navigation: the base entries and the admin entry
RouteCatalog == { allMenuItems[i] : i \in DOMAIN allMenuItems } \cup {adminMenuItem}

MenuSet == { menu[i] : i \in DOMAIN menu }

\* C1: the route guard renders the protected content if and only if a
\* principal is present and its role is one of the route's allowedRoles;
\* otherwise it renders a redirect and never the content.
C1_GuardIff ==
    /\ (gElement = Page(gChildren))
          <=> (gUser # NoUser /\ gUser.role \in gAllowedRoles)
    /\ gElement # Page(gChildren) => gElement.kind = "navigate"

C1_Witness ==
    /\ gUser # NoUser
    /\ gUser.role = "analyst"
    /\ gAllowedRoles = {"admin", "analyst"}
    /\ gElement = Page("Integrations")

\* C2: a denied navigation is redirected in two tiers: to /login when no
\* principal is present, to "/" when the principal's role is not allowed on
\* the route; a viewer asking for /integrations lands on "/", an analyst
\* asking for it gets the page.
C2_TwoTierRedirect ==
    ~loading =>
      /\ (user = NoUser /\ requested \notin {"/login", "/signup"})
            => (redirects = << "/login" >> /\ location = "/login")
      /\ \A i \in GuardedRoutes :
            (user # NoUser /\ requested = AuthRouteTable[i].path
               /\ user.role \notin AuthRouteTable[i].allowedRoles)
            => (redirects = << "/" >> /\ location = "/" /\ view = "Dashboard")
      /\ (user # NoUser /\ user.role = "viewer" /\ requested = "/integrations")
            => (location = "/" /\ view # "Integrations")
      /\ (user # NoUser /\ user.role = "analyst" /\ requested = "/integrations")
            => (redirects = << >> /\ location = "/integrations"
                  /\ view = "Integrations")

C2_Witness ==
    /\ ~loading
    /\ user # NoUser
    /\ user.role = "viewer"
    /\ requested = "/integrations"
    /\ redirects = << "/" >>

\* C3: a principal whose admin request is pending (requested_role = admin,
\* role_approved = false) is authorized as a viewer, and every admin-only
\* route is denied to it.
C3_PendingAdminIsViewer ==
    (~loading /\ user # NoUser /\ hasPendingAdminRequest(user)) =>
      /\ user.role = "viewer"
      /\ menu = menuItems([user EXCEPT !.requested_role = NoRole])
      /\ \A i \in GuardedRoutes :
            requested = AuthRouteTable[i].path
            => ((view = AuthRouteTable[i].page)
                  <=> ("viewer" \in AuthRouteTable[i].allowedRoles))
      /\ \A i \in AdminOnlyRoutes :
            requested = AuthRouteTable[i].path
            => (view # AuthRouteTable[i].page /\ location = "/")

C3_Witness ==
    /\ ~loading
    /\ user # NoUser
    /\ hasPendingAdminRequest(user)
    /\ requested = "/admin"
    /\ location = "/"

\* C4: the route decision and the menu depend only on the presence of a
\* principal and on its role: any principal with the same role, whatever its
\* requested_role, role_approved, is_active and is_super_admin, gets the same
\* page, location, redirects and menu for the same request.
C4_OnlyRoleMatters ==
    (~loading /\ user # NoUser) =>
      \A q \in Principals :
        q.role = user.role =>
          LET r == Render(q, FALSE, requested, << >>, MaxRedirects)
          IN  /\ view = r.view
              /\ location = r.location
              /\ redirects = r.redirects
              /\ menu = r.menu

C4_Witness ==
    /\ ~loading
    /\ user # NoUser
    /\ user.role = "viewer"
    /\ user.is_super_admin
    /\ user.requested_role = "admin"
    /\ requested = "/admin"
    /\ view = "Dashboard"

\* C5: the menu holds exactly the entries of the route catalog (admin entry
\* included) whose roles contain the principal's role, each once.
C5_MenuExact ==
    (~loading /\ user # NoUser) =>
      /\ MenuSet = { item \in RouteCatalog : user.role \in item.roles }
      /\ Len(menu) = Cardinality(MenuSet)

C5_Witness ==
    /\ ~loading
    /\ user # NoUser
    /\ user.role = "analyst"
    /\ Len(menu) = 5
    /\ adminMenuItem \notin MenuSet

\* C6: a catalog route that the menu omits for the principal's role is
\* denied by the route guard when its path is requested directly.
C6_OmittedRouteDenied ==
    (~loading /\ user # NoUser) =>
      \A item \in RouteCatalog :
        (item \notin MenuSet /\ requested = item.path) =>
          /\ location # item.path
          /\ redirects # << >>
          /\ \A i \in RouteAt(item.path) : view # AuthRouteTable[i].page

C6_Witness ==
    /\ ~loading
    /\ user # NoUser
    /\ user.role = "analyst"
    /\ requested = "/admin"
    /\ adminMenuItem \notin MenuSet
    /\ view = "Dashboard"

\* C7: every route of the navigation catalog matches exactly one route of
\* the authenticated route table, and an authenticated request for a path
\* that matches none gets no page of its own: it is sent to "/".
C7_OneRouteEach ==
    /\ \A item \in RouteCatalog : Cardinality(RouteAt(item.path)) = 1
    /\ (~loading /\ user # NoUser /\ requested \notin {"/login", "/signup"}) =>
          \A item \in RouteCatalog :
            (requested = item.path /\ user.role \in item.roles)
              => (location = item.path /\ redirects = << >>)
    /\ (~loading /\ user # NoUser /\ RouteAt(requested) = {}) =>
          /\ location = "/"
          /\ redirects = << "/" >>
          /\ view = "Dashboard"

C7_Witness ==
    /\ ~loading
    /\ user # NoUser
    /\ requested = "/nowhere"
    /\ location = "/"

\* C8: while no principal is authenticated, a request for any path other
\* than /login and /signup is redirected to /login, and only the login and
\* signup pages (or the start-up placeholder) are ever rendered, without the
\* menu.
C8_UnauthenticatedToLogin ==
    user = NoUser =>
      /\ view \in {"Login", "Signup", "Loading"}
      /\ menu = << >>
      /\ ~loading =>
           /\ requested \notin {"/login", "/signup"}
                => (location = "/login" /\ redirects = << "/login" >>
                      /\ view = "Login")
           /\ requested = "/login" => view = "Login"
           /\ requested = "/signup" => view = "Signup"

C8_Witness ==
    /\ user = NoUser
    /\ ~loading
    /\ requested = "/admin"
    /\ location = "/login"

(***************************************************************************)
(* Properties of the integrations store                                    *)
(***************************************************************************)
IdsOf(list) == [i \in DOMAIN list |-> list[i].id]

CatalogIds == IdsOf(defaultIntegrations)

HasUnknownId(st) ==
    /\ st.kind = "json"
    /\ st.value.t = "array"
    /\ \E j \in DOMAIN st.value.items :
          /\ st.value.items[j].t = "object"
          /\ \A d \in DOMAIN CatalogIds :
                ~IdMatches(st.value.items[j], CatalogIds[d])

\* C9: loadIntegrations on a store with no entry under the key returns the
\* descriptor defaults: the five catalog ids, once each and nothing else,
\* with the enabled, status and config of the descriptors.
C9_LoadEmptyIsDefaults ==
    loadInput = NoItem =>
      /\ IdsOf(loadResult) = << "slack", "teams", "email", "webhook", "zapier" >>
      /\ \A i \in DOMAIN loadResult :
            LET r == loadResult[i]
            IN  /\ r.enabled = (r.id = "email")
                /\ r.status = IF r.id = "email" THEN "connected"
                              ELSE "disconnected"
                /\ ("config" \in DOMAIN r) = (r.id = "email")
                /\ r.id = "email" => r.config = { <<"email", "team@example.com">> }
      /\ loadResult = defaultIntegrations

C9_Witness ==
    /\ loadInput = NoItem
    /\ Len(loadResult) = 5

\* C10: in every state reached by load, toggle and configure, the ids of
\* the store are the ids of the catalog, once each: load drops the stored
\* records of unknown ids and gives the descriptors without a stored record
\* their defaults, and no operation removes a record.
C10_IdsAreCatalogIds ==
    /\ loadInput # NoLoad => IdsOf(loadResult) = CatalogIds
    /\ mounted =>
         /\ IdsOf(integrations) = CatalogIds
         /\ Cardinality({ integrations[i].id : i \in DOMAIN integrations })
               = Len(integrations)

C10_Witness ==
    /\ mounted
    /\ HasUnknownId(loadInput)
    /\ \E i \in DOMAIN integrations :
          /\ integrations[i].id = "slack"
          /\ integrations[i].status = "connected"
          /\ ~integrations[i].enabled

\* the payload is a JSON array whose elements are all records
IsRecordArray(st) ==
    /\ st.kind = "json"
    /\ st.value.t = "array"
    /\ \A j \in DOMAIN st.value.items : st.value.items[j].t = "object"

\* the payload is no JSON text at all, or JSON that is not an array
NotAnArray(st) ==
    \/ st = EmptyText
    \/ st.kind = "text"
    \/ st.kind = "json" /\ st.value.t # "array"

BehaviouralFields == {"enabled", "status", "config"}

\* C11: after a load every integration carries the icon and the display
\* name of its descriptor, whatever the payload holds, and the enabled,
\* status and config of its stored record where the payload has one.
C11_PresentationFromDescriptor ==
    loadInput # NoLoad =>
      \A d \in DOMAIN loadResult :
         LET def == defaultIntegrations[d]
             r   == loadResult[d]
         IN  /\ r.icon = def.icon
             /\ r.name = def.name
             /\ IsRecordArray(loadInput) =>
                   LET k == FindIndex(loadInput.value.items, def.id)
                   IN  k # 0 =>
                         \A f \in BehaviouralFields
                                 \cap DOMAIN loadInput.value.items[k].fields :
                            r[f] = loadInput.value.items[k].fields[f]

\* C12 as stated: a payload that is unparseable, or parseable but not an
\* array of records, loads without raising as the descriptor defaults.
C12_NotRecordArrayIsDefaults ==
    (loadInput # NoLoad /\ loadInput # NoItem /\ ~IsRecordArray(loadInput)) =>
      /\ ~loadRaised
      /\ loadResult = defaultIntegrations

\* C12: a payload that is unparseable, or parseable but not an array,
\* loads without raising to the caller as the descriptor defaults of all
\* catalog entries.
C12_MalformedIsDefaults ==
    (loadInput # NoLoad /\ NotAnArray(loadInput)) =>
      /\ ~loadRaised
      /\ loadResult = defaultIntegrations

C12_Witness ==
    /\ loadInput = JsonText(JObject([id |-> "slack"]))
    /\ ~loadRaised
    /\ loadResult = defaultIntegrations

InStore(list, id) == \E i \in DOMAIN list : list[i].id = id

\* C13: a toggle of an id of the store negates the enabled flag of that
\* integration and changes nothing else, neither its status and config
\* nor any other record; the same toggle called twice in a row gives the
\* store back as it was.
C13_ToggleFlipsEnabledOnly ==
    \A n \in DOMAIN opLog :
       (opLog[n].op = "toggle" /\ InStore(storeLog[n], opLog[n].id)) =>
          LET before == storeLog[n]
              after  == storeLog[n + 1]
          IN  /\ DOMAIN after = DOMAIN before
              /\ \A i \in DOMAIN before :
                    IF before[i].id = opLog[n].id
                    THEN /\ after[i].enabled = ~before[i].enabled
                         /\ Without(after[i], "enabled")
                               = Without(before[i], "enabled")
                    ELSE after[i] = before[i]
              /\ (n > 1 /\ opLog[n - 1] = opLog[n]) =>
                    storeLog[n + 1] = storeLog[n - 1]

C13_Witness ==
    /\ Len(opLog) = 2
    /\ opLog[1] = opLog[2]
    /\ opLog[1].op = "toggle" /\ opLog[1].id = "email"
    /\ storeLog[1][3].enabled /\ ~storeLog[2][3].enabled
    /\ storeLog[3] = storeLog[1]

\* C14: a toggle or a configure with an id that is not in the store
\* raises a NotFound error to its caller and leaves the store and the
\* persisted payload as they were.
C14_UnknownIdNotFound ==
    \A n \in DOMAIN opLog :
       (/\ opLog[n].op \in {"toggle", "configure"}
        /\ ~InStore(storeLog[n], opLog[n].id)) =>
          /\ opLog[n].raised
          /\ storeLog[n + 1] = storeLog[n]
          /\ storageLog[n + 1] = storageLog[n]

\* C15: a configure of an id of the store with a mapping X leaves that
\* record with config = X (the previous config is replaced, not merged),
\* status connected and enabled true, changes no other field and no other
\* record; the same configure called again changes nothing.
C15_ConfigureReplaces ==
    \A n \in DOMAIN opLog :
       (opLog[n].op = "configure" /\ InStore(storeLog[n], opLog[n].id)) =>
          LET before == storeLog[n]
              after  == storeLog[n + 1]
              set    == {"config", "status", "enabled"}
          IN  /\ DOMAIN after = DOMAIN before
              /\ \A i \in DOMAIN before :
                    IF before[i].id = opLog[n].id
                    THEN /\ after[i].config = opLog[n].values
                         /\ after[i].status = "connected"
                         /\ after[i].enabled = TRUE
                         /\ \A f \in DOMAIN before[i] \ set :
                               /\ f \in DOMAIN after[i]
                               /\ after[i][f] = before[i][f]
                         /\ DOMAIN after[i] = DOMAIN before[i] \cup set
                    ELSE after[i] = before[i]
              /\ (n > 1 /\ opLog[n - 1] = opLog[n]) =>
                    storeLog[n + 1] = storeLog[n]

C15_Witness ==
    /\ Len(opLog) = 2
    /\ opLog[1].op = "configure" /\ opLog[1].id = "slack"
    /\ opLog[1].values = { <<"webhookUrl", "https://x">> }
    /\ opLog[2] = [opLog[1] EXCEPT !.values = { <<"channel", "#general">> }]
    /\ storeLog[3][1].config = { <<"channel", "#general">> }
    /\ storeLog[3][1].status = "connected"

C18_RoundTrip ==
    \A n \in DOMAIN opLog :
       opLog[n].op = "load" =>
          /\ ~opLog[n].raised
          /\ IdsOf(storeLog[n + 1]) = IdsOf(storeLog[n])
          /\ \A i \in DOMAIN storeLog[n] :
                /\ DOMAIN storeLog[n + 1][i] = DOMAIN storeLog[n][i]
                /\ \A f \in DOMAIN storeLog[n][i] :
                      storeLog[n + 1][i][f] = storeLog[n][i][f]

C18_Witness ==
    /\ Len(opLog) = 2
    /\ opLog[1].op = "configure" /\ opLog[1].id = "webhook"
    /\ opLog[1].values = { <<"channel", "#general">> }
    /\ opLog[2].op = "load"
    /\ storeLog[3][4].config = { <<"channel", "#general">> }
    /\ storeLog[3][4].status = "connected"

\* C19: a call of load leaves the persisted payload as it found it, and a
\* call that follows another with nothing in between returns the same
\* list and raises no more than the first did.
C19_LoadIsIdempotentRead ==
    \A n \in DOMAIN opLog :
       opLog[n].op = "load" =>
          /\ storageLog[n + 1] = storageLog[n]
          /\ (n > 1 /\ opLog[n - 1].op = "load") =>
                /\ storeLog[n] = storeLog[n - 1]
                /\ opLog[n].raised = opLog[n - 1].raised

C19_Witness ==
    /\ Len(opLog) = 2
    /\ opLog[1].op = "load" /\ opLog[2].op = "load"
    /\ storage = GarbageText
    /\ storeLog[2] = defaultIntegrations

\* C20: once the reads a view has issued have settled, its loading flag
\* is false, and after a read that failed the view does not show its
\* loading indicator.
C20_NoStaleLoadingIndicator ==
    (pending = 0 /\ lastOutcome # "none") =>
       /\ ~viewLoading
       /\ lastOutcome = "failed" => ~LoadingIndicator

\* C26: a read that fails enqueues a snackbar, with the detail message of
\* the response when it has one, and changes none of the data the view
\* had loaded; the load function ends with the loading flag cleared.
C26_FailedReadNotifiesAndKeepsData ==
    /\ [](\A n \in DOMAIN rejections :
            /\ rejections[n].snackbar # NoSnackbar
            /\ rejections[n].detail # NoDetail =>
                  rejections[n].snackbar = rejections[n].detail)
    /\ [][ Len(rejections') > Len(rejections) =>
             /\ viewData' = viewData
             /\ dashboard' = dashboard
             /\ ~viewLoading' ]_vars

\* C21: the step that logs out sends no request to the backend and leaves
\* no principal and no token in the store or in localStorage; from it
\* until a login succeeds the store holds no principal and every location
\* asked for other than /login and /signup ends on /login.
C21_LogoutIsLocalAndLocksOut ==
    [][ /\ (~loggedOut /\ loggedOut') =>
             /\ roundTrips' = roundTrips
             /\ lsToken' = NoToken
             /\ authToken' = NoToken
        /\ loggedOut' =>
             /\ user' = NoUser
             /\ authToken' = NoToken
             /\ view' \in {"Login", "Signup"}
             /\ requested' \notin {"/login", "/signup"} =>
                   location' = "/login"
      ]_vars

C21_Witness ==
    /\ loggedOut
    /\ requested = "/admin"
    /\ location = "/login"
    /\ redirects = << "/login" >>
    /\ lsToken = NoToken

\* C27: after a login attempt that failed, in the login request or in the
\* current-user request, localStorage holds a token only if the store
\* holds the same token and a principal.
C27_NoTokenAfterFailedLogin ==
    (loginPhase = "idle" /\ loginOutcome = "failed") =>
       /\ authToken # NoToken => user # NoUser
       /\ lsToken # NoToken => (user # NoUser /\ authToken = lsToken)

\* the steps of a connection test leave the list and the payload alone
TestFrame ==
    (timers' # timers /\ mounted') =>
       /\ integrations' = integrations
       /\ storage' = storage

\* C22 as stated: every connection test that was started is followed by
\* the success message, and its steps change neither the list nor the
\* payload.
C22_TestAlwaysReportsSuccess ==
    /\ [][TestFrame]_vars
    /\ (timers > 0) ~> (testResult = TestSuccess)

\* C22: a connection test that was started is followed by the success
\* message unless the page is left before the delay has elapsed, and its
\* steps change neither the list (status, enabled, config of every
\* integration) nor the payload.
C22_TestReportsSuccessWhileMounted ==
    /\ [][TestFrame]_vars
    /\ (timers > 0) ~> (testResult = TestSuccess \/ ~mounted)

C22_Witness ==
    /\ mounted
    /\ configDialogOpen
    /\ timers = 0
    /\ testResult = TestSuccess
    /\ selectedIntegration.id = "slack"
    /\ integrations[1].status = "disconnected"

\* the fields of the stored record that load merged into the integration
CarriedFields(st, id) ==
    IF st.kind = "json" /\ st.value.t = "array"
          /\ FindIndex(st.value.items, id) # 0
    THEN DOMAIN st.value.items[FindIndex(st.value.items, id)].fields
    ELSE {}

StoredRecord(st, id) ==
    LET k == FindIndex(st.value.items, id)
    IN  st.value.items[k].fields

\* C24: with the page open in several tabs, what a toggle or a configure
\* of one tab persisted for an integration stays in the payload until
\* that integration is toggled or configured again: a persist of another
\* tab rewrites the record of the integration it acts on and no other.
C24_NoLostUpdateAcrossTabs ==
    \A n \in DOMAIN opLog :
       opLog[n].op \in {"toggle", "configure"} =>
          \A i \in DOMAIN defaultIntegrations :
             LET id == defaultIntegrations[i].id
             IN  id # opLog[n].id =>
                   StoredRecord(storageLog[n + 1], id)
                      = StoredRecord(storageLog[n], id)

\* the call whose lists were stored last (0: none)
LastStored(log) ==
    LET oks == { n \in DOMAIN log : log[n].ok }
    IN  IF oks = {} THEN 0
        ELSE log[CHOOSE n \in oks : \A m \in oks : m <= n].call

\* C25: in the admin view a call of loadData is never dropped, merged or
\* cancelled: every call issued is in flight or has settled once, and a
\* timer tick or a reload after an action issues a further call whatever
\* is still in flight; every call that resolves stores its two lists, so
\* the lists shown are those of the call that resolved last, in
\* completion order and not in issue order.
C25_RefreshesOverlapLastCompletedWins ==
    /\ { r.call : r \in inFlight }
          \cup { settledLog[n].call : n \in DOMAIN settledLog } = 1..issued
    /\ Cardinality(inFlight) + Len(settledLog) = issued
    /\ (issued > 0 /\ issued < MaxCalls) =>
          (ENABLED timerTick /\ ENABLED reloadAfterAction)
    /\ (issued > 0 /\ issued < MaxCalls /\ ~adminLoading) =>
          ENABLED manualRefresh
    /\ usersFrom = LastStored(settledLog)
    /\ pendingFrom = LastStored(settledLog)

C25_Witness ==
    /\ inFlight = {}
    /\ Len(settledLog) >= 2
    /\ settledLog[1] = [call |-> 2, ok |-> TRUE]
    /\ settledLog[2] = [call |-> 1, ok |-> TRUE]
    /\ usersFrom = 1

C29_SuccessOnlyForTestedIntegration ==
    (mounted /\ configDialogOpen /\ testResult = TestSuccess) =>
       selectedIntegration.id = testTarget

\* a step that is an updateFeedback keeps the number of items, the id at
\* every position and total, changes at most the first item with the id
\* of the payload, and changes nothing when no item has that id
UpdateKeeps ==
    (dispatches' # dispatches /\ lastAction'.type = "updateFeedback") =>
       LET f == lastAction'.arg[1]
           old == feedback.items
           new == feedback'.items
       IN  /\ Len(new) = Len(old)
           /\ \A i \in DOMAIN old : new[i].id = old[i].id
           /\ \A i \in DOMAIN old : new[i] # old[i] => new[i] = f
           /\ feedback'.total = feedback.total
           /\ (\A i \in DOMAIN old : old[i].id # f.id) =>
                 feedback' = feedback

\* C30 as stated: under any sequence of setFeedback, addFeedback,
\* updateFeedback and setTotal (given the current item count) from the
\* initial state, total always equals the number of items, and
\* updateFeedback keeps the number and order of the items and does
\* nothing for an id that is not present.
C30_TotalAlwaysItemCount ==
    /\ [](feedback.total = Len(feedback.items))
    /\ [][UpdateKeeps]_vars

\* C30: under any such sequence, total equals the number of items
\* whenever no setFeedback was dispatched since the last setTotal (or
\* since the initial state); updateFeedback keeps the number and order of
\* the items and does nothing for an id that is not present.
C30_TotalIsItemCountOnceSet ==
    /\ [](~unsynced => feedback.total = Len(feedback.items))
    /\ [][UpdateKeeps]_vars

C30_Witness ==
    /\ ~unsynced
    /\ dispatches = 4
    /\ lastAction.type = "updateFeedback"
    /\ feedback.total = 3
    /\ feedback.items[2] = lastAction.arg[1]
    /\ feedback.items[3].id = feedback.items[2].id

TypeOK ==
    /\ user \in Principals \cup {NoUser}
    /\ loading \in BOOLEAN
    /\ requested \in Paths
    /\ location \in Paths

====
